---- MODULE Spec2Model ----
(***************************************************************************)
(* Model of the two command interceptors of the repository:                *)
(*   tools/interceptors/intercept.py           ("basic":   built-in        *)
(*       heuristic catalogs, always executes)                              *)
(*   tools/interceptors/intercept-enhanced.py  ("enhanced": rule lists     *)
(*       deny/ask/allow from permissions.yaml, check-only or --exec)       *)
(* One behaviour of the model is one invocation of one of the two          *)
(* programs.  Python strings are sequences of one-character strings, so    *)
(* that split, join, substring search and regular-expression search are    *)
(* computed character by character as the code computes them.              *)
(***************************************************************************)
EXTENDS Integers, Sequences, FiniteSets, TLC

(***************************************************************************)
(* Python str primitives                                                   *)
(***************************************************************************)

\* Largest number of rule entries, summed over the deny, ask and allow
\* lists, of the configurations that are enumerated.
MaxRules == 2

Range(f) == {f[i] : i \in DOMAIN f}

\* F(e), with e evaluated once
Bind(e, F(_)) == CHOOSE r \in {F(x) : x \in {e}} : TRUE

\* the character ` (which cannot be written inside a TLA+ string)
Backtick == "<backtick>"

\* str.lower() on one character (ASCII letters)
UpperCase ==
  <<"A", "B", "C", "D", "E", "F", "G", "H", "I", "J", "K", "L", "M",
    "N", "O", "P", "Q", "R", "S", "T", "U", "V", "W", "X", "Y", "Z">>
LowerCase ==
  <<"a", "b", "c", "d", "e", "f", "g", "h", "i", "j", "k", "l", "m",
    "n", "o", "p", "q", "r", "s", "t", "u", "v", "w", "x", "y", "z">>
Lower(c) ==
  IF \E i \in 1..26 : UpperCase[i] = c
    THEN LowerCase[CHOOSE i \in 1..26 : UpperCase[i] = c]
    ELSE c

LowerStr(s) == [i \in 1..Len(s) |-> Lower(s[i])]

\* characters that str.split() and str.strip() treat as whitespace
IsSpace(c) == c = " "

\* str.strip()
RECURSIVE LStrip(_)
LStrip(s) == IF s # <<>> /\ IsSpace(Head(s)) THEN LStrip(Tail(s)) ELSE s

RECURSIVE RStrip(_)
RStrip(s) ==
  IF s # <<>> /\ IsSpace(s[Len(s)]) THEN RStrip(SubSeq(s, 1, Len(s) - 1)) ELSE s

Strip(s) == RStrip(LStrip(s))

\* str.split(): the maximal runs of non-whitespace characters, in order
RECURSIVE SplitFrom(_, _, _)
SplitFrom(s, i, cur) ==
  IF i > Len(s)
    THEN IF cur = <<>> THEN <<>> ELSE <<cur>>
    ELSE IF IsSpace(s[i])
           THEN (IF cur = <<>> THEN <<>> ELSE <<cur>>) \o SplitFrom(s, i + 1, <<>>)
           ELSE SplitFrom(s, i + 1, Append(cur, s[i]))

Split(s) == SplitFrom(s, 1, <<>>)

\* ' '.join(parts)
RECURSIVE Join(_)
Join(parts) ==
  IF parts = <<>> THEN <<>>
  ELSE IF Len(parts) = 1 THEN Head(parts)
  ELSE Head(parts) \o <<" ">> \o Join(Tail(parts))

\* s.startswith(p)
StartsWith(s, p) == Len(p) <= Len(s) /\ SubSeq(s, 1, Len(p)) = p

\* (a in s) for strings: a occurs as a contiguous substring of s
IsSubstr(a, s) ==
  \E i \in 1..(Len(s) + 1) :
     i + Len(a) - 1 <= Len(s) /\ SubSeq(s, i, i + Len(a) - 1) = a

\* index of the first occurrence of character c in s, 0 if there is none
FirstIndex(s, c) ==
  IF \E i \in 1..Len(s) : s[i] = c
    THEN CHOOSE i \in 1..Len(s) : s[i] = c /\ \A j \in 1..(i - 1) : s[j] # c
    ELSE 0


(***************************************************************************)
(* Python re: compilation and search                                       *)
(*                                                                         *)
(* ReCompile parses a pattern the way re.compile does, for the syntax the  *)
(* catalogs and the rule patterns of this model use: literals, '.', the    *)
(* repeats '*' '+' '?' (and their lazy forms), groups '( )', alternation   *)
(* '|', character sets '[...]' without ranges, the escape '\s' and escaped *)
(* punctuation.  It yields [ok |-> FALSE] where re.compile raises re.error *)
(* (nothing to repeat, multiple repeat, missing or unbalanced parenthesis, *)
(* unterminated character set, trailing backslash).                        *)
(***************************************************************************)

ReError == [ok |-> FALSE]

IsRepeat(c) == c \in {"*", "+", "?"}

ReQuant(q, a) ==
  CASE q = "*" -> [t |-> "star", r |-> a]
    [] q = "+" -> [t |-> "seq", rs |-> <<a, [t |-> "star", r |-> a]>>]
    [] q = "?" -> [t |-> "opt", r |-> a]

RECURSIVE ReParseAlt(_, _)
RECURSIVE ReParseBranch(_, _)
RECURSIVE ReParsePiece(_, _)
RECURSIVE ReParseAtom(_, _)

\* atom: group, character set, escape, '.', or a literal character
ReParseAtom(p, i) ==
  CASE p[i] = "(" ->
         Bind(ReParseAlt(p, i + 1), LAMBDA g :
           IF ~g.ok THEN ReError
           ELSE IF g.pos > Len(p) \/ p[g.pos] # ")" THEN ReError
           ELSE [ok |-> TRUE, ast |-> g.ast, pos |-> g.pos + 1])
    [] p[i] = "[" ->
         IF \E j \in (i + 2)..Len(p) : p[j] = "]"
           THEN LET j == CHOOSE j \in (i + 2)..Len(p) :
                            p[j] = "]" /\ \A k \in (i + 2)..(j - 1) : p[k] # "]"
                IN  [ok |-> TRUE,
                     ast |-> [t |-> "set", cs |-> {p[k] : k \in (i + 1)..(j - 1)}],
                     pos |-> j + 1]
           ELSE ReError
    [] p[i] = "\\" ->
         IF i + 1 > Len(p) THEN ReError
         ELSE IF p[i + 1] = "s"
           THEN [ok |-> TRUE, ast |-> [t |-> "ws"], pos |-> i + 2]
           ELSE [ok |-> TRUE, ast |-> [t |-> "lit", c |-> p[i + 1]], pos |-> i + 2]
    [] p[i] = "." -> [ok |-> TRUE, ast |-> [t |-> "any"], pos |-> i + 1]
    [] OTHER -> [ok |-> TRUE, ast |-> [t |-> "lit", c |-> p[i]], pos |-> i + 1]

\* piece: an atom with an optional repeat; a repeat with nothing before it,
\* or a repeat of a repeat, is an error
ReParsePiece(p, i) ==
  IF IsRepeat(p[i]) THEN ReError
  ELSE
    Bind(ReParseAtom(p, i), LAMBDA a :
      IF ~a.ok THEN ReError
      ELSE IF a.pos <= Len(p) /\ IsRepeat(p[a.pos])
        THEN LET lazy == a.pos + 1 <= Len(p) /\ p[a.pos + 1] = "?"
                 n    == IF lazy THEN a.pos + 2 ELSE a.pos + 1
             IN  IF n <= Len(p) /\ IsRepeat(p[n]) THEN ReError
                 ELSE [ok |-> TRUE, ast |-> ReQuant(p[a.pos], a.ast), pos |-> n]
        ELSE a)

\* branch: pieces up to '|', ')' or the end of the pattern
ReParseBranch(p, i) ==
  IF i > Len(p) \/ p[i] \in {"|", ")"}
    THEN [ok |-> TRUE, ast |-> [t |-> "seq", rs |-> <<>>], pos |-> i]
    ELSE Bind(ReParsePiece(p, i), LAMBDA a :
           IF ~a.ok THEN ReError
           ELSE Bind(ReParseBranch(p, a.pos), LAMBDA rest :
                  IF ~rest.ok THEN ReError
                  ELSE [ok |-> TRUE,
                        ast |-> [t |-> "seq", rs |-> <<a.ast>> \o rest.ast.rs],
                        pos |-> rest.pos]))

\* alternation of branches
ReParseAlt(p, i) ==
  Bind(ReParseBranch(p, i), LAMBDA b :
    IF ~b.ok THEN ReError
    ELSE IF b.pos <= Len(p) /\ p[b.pos] = "|"
      THEN Bind(ReParseAlt(p, b.pos + 1), LAMBDA rest :
             IF ~rest.ok THEN ReError
             ELSE [ok |-> TRUE,
                   ast |-> [t |-> "alt", rs |-> <<b.ast, rest.ast>>],
                   pos |-> rest.pos])
      ELSE b)

\* re.compile(p): the whole pattern must be consumed (a stray ')' is an error)
ReCompile(p) ==
  Bind(ReParseAlt(p, 1), LAMBDA r :
    IF r.ok /\ r.pos = Len(p) + 1 THEN [ok |-> TRUE, ast |-> r.ast] ELSE ReError)

RECURSIVE ReEnds(_, _, _)
RECURSIVE ReSeqEnds(_, _, _)
RECURSIVE ReStarEnds(_, _, _)

\* the positions at which a match of r that starts at position i of s can
\* end (re.IGNORECASE: characters are compared after lower-casing)
ReEnds(r, s, i) ==
  CASE r.t = "lit" ->
         IF i <= Len(s) /\ Lower(s[i]) = Lower(r.c) THEN {i + 1} ELSE {}
    [] r.t = "any" -> IF i <= Len(s) THEN {i + 1} ELSE {}
    [] r.t = "ws" -> IF i <= Len(s) /\ IsSpace(s[i]) THEN {i + 1} ELSE {}
    [] r.t = "set" ->
         IF i <= Len(s) /\ Lower(s[i]) \in {Lower(c) : c \in r.cs}
           THEN {i + 1} ELSE {}
    [] r.t = "seq" -> ReSeqEnds(r.rs, s, {i})
    [] r.t = "alt" -> UNION {ReEnds(r.rs[k], s, i) : k \in DOMAIN r.rs}
    [] r.t = "opt" -> {i} \cup ReEnds(r.r, s, i)
    [] r.t = "star" -> ReStarEnds(r.r, s, {i})

ReSeqEnds(rs, s, from) ==
  IF rs = <<>> THEN from
  ELSE Bind(UNION {ReEnds(Head(rs), s, i) : i \in from}, LAMBDA next :
         ReSeqEnds(Tail(rs), s, next))

ReStarEnds(r, s, from) ==
  Bind(from \cup UNION {ReEnds(r, s, i) : i \in from}, LAMBDA more :
    IF more = from THEN from ELSE ReStarEnds(r, s, more))

\* re.search(p, s, re.IGNORECASE): "error" where re.error is raised,
\* otherwise whether some substring of s matches
ReSearch(p, s) ==
  Bind(ReCompile(p), LAMBDA c :
    IF ~c.ok THEN "error"
    ELSE IF \E i \in 1..(Len(s) + 1) : ReEnds(c.ast, s, i) # {}
      THEN "match" ELSE "nomatch")

(***************************************************************************)
(* intercept.py: the built-in catalogs                                     *)
(***************************************************************************)

\* dict of program -> forbidden argument substrings, in insertion order
BLOCKED_COMMANDS ==
  <<[cmd |-> <<"r", "m">>,
      args |-> <<<<"-", "r", "f">>, <<"-", "f", "r">>, <<"-", "r", " ", "/">>>>],
    [cmd |-> <<"d", "d">>,
      args |-> <<<<"i", "f", "=">>, <<"o", "f", "=", "/", "d", "e", "v">>>>],
    [cmd |-> <<"m", "k", "f", "s">>,
      args |-> <<<<"*">>>>],
    [cmd |-> <<"f", "d", "i", "s", "k">>,
      args |-> <<<<"*">>>>],
    [cmd |-> <<"p", "a", "r", "t", "e", "d">>,
      args |-> <<<<"*">>>>],
    [cmd |-> <<"s", "h", "u", "t", "d", "o", "w", "n">>,
      args |-> <<<<"*">>>>],
    [cmd |-> <<"r", "e", "b", "o", "o", "t">>,
      args |-> <<<<"*">>>>],
    [cmd |-> <<"h", "a", "l", "t">>,
      args |-> <<<<"*">>>>],
    [cmd |-> <<"p", "o", "w", "e", "r", "o", "f", "f">>,
      args |-> <<<<"*">>>>],
    [cmd |-> <<"i", "n", "i", "t">>,
      args |-> <<<<"0">>, <<"6">>>>],
    [cmd |-> <<"s", "y", "s", "t", "e", "m", "c", "t", "l">>,
      args |-> <<<<"d", "i", "s", "a", "b", "l", "e">>, <<"m", "a", "s", "k">>, <<"s", "t", "o", "p">>>>],
    [cmd |-> <<"c", "h", "m", "o", "d">>,
      args |-> <<<<"7", "7", "7", " ", "/">>, <<"-", "R", " ", "7", "7", "7">>>>],
    [cmd |-> <<"c", "h", "o", "w", "n">>,
      args |-> <<<<"-", "R", " ", "/">>>>]>>

DANGEROUS_PATTERNS ==
  <<<<";", "\\", "s", "*", "r", "m", "\\", "s", "+", "-">>,
    <<"\\", "|", "\\", "s", "*", "b", "a", "s", "h">>,
    <<"\\", "|", "\\", "s", "*", "s", "h">>,
    <<Backtick, ".", "*", "r", "m", ".", "*", Backtick>>,
    <<"\\", "$", "\\", "(", ".", "*", "r", "m", ".", "*", "\\", ")">>,
    <<"b", "a", "s", "e", "6", "4", ".", "*", "\\", "|", "\\", "s", "*", "(", "b", "a", "s", "h", "|", "s", "h", "|", "e", "v", "a", "l", ")">>,
    <<"e", "v", "a", "l", "\\", "s", "+", "\\", "$">>,
    <<">", "\\", "s", "*", "/", "d", "e", "v", "/", "(", "s", "d", "|", "h", "d", "|", "n", "v", "m", "e", ")">>,
    <<":", "\\", "(", "\\", ")", "\\", "s", "*", "{", "\\", "s", "*", ":", "\\", "|", ":", "&", "\\", "s", "*", "}", ";", ":">>,
    <<"n", "c", "\\", "s", "+", "-", "[", "l", "e", "]">>,
    <<"/", "d", "e", "v", "/", "(", "t", "c", "p", "|", "u", "d", "p", ")", "/">>>>

CONFIRM_COMMANDS ==
  <<[cmd |-> <<"n", "p", "m">>,
      args |-> <<<<"i", "n", "s", "t", "a", "l", "l">>, <<"i">>, <<"c", "i">>>>],
    [cmd |-> <<"p", "i", "p">>,
      args |-> <<<<"i", "n", "s", "t", "a", "l", "l">>>>],
    [cmd |-> <<"y", "a", "r", "n">>,
      args |-> <<<<"a", "d", "d">>, <<"i", "n", "s", "t", "a", "l", "l">>>>],
    [cmd |-> <<"a", "p", "t">>,
      args |-> <<<<"i", "n", "s", "t", "a", "l", "l">>, <<"r", "e", "m", "o", "v", "e">>, <<"p", "u", "r", "g", "e">>>>],
    [cmd |-> <<"b", "r", "e", "w">>,
      args |-> <<<<"i", "n", "s", "t", "a", "l", "l">>, <<"u", "n", "i", "n", "s", "t", "a", "l", "l">>>>],
    [cmd |-> <<"d", "o", "c", "k", "e", "r">>,
      args |-> <<<<"r", "u", "n">>, <<"e", "x", "e", "c">>, <<"r", "m">>>>],
    [cmd |-> <<"g", "i", "t">>,
      args |-> <<<<"p", "u", "s", "h">>, <<"p", "u", "s", "h", " ", "-", "f">>, <<"r", "e", "s", "e", "t", " ", "-", "-", "h", "a", "r", "d">>>>]>>

DATA_THEFT_PATTERNS ==
  <<<<"c", "a", "t", ".", "*", "(", "\\", ".", "e", "n", "v", "|", "c", "r", "e", "d", "e", "n", "t", "i", "a", "l", "s", "|", "\\", ".", "a", "w", "s", "|", "\\", ".", "s", "s", "h", "|", "\\", ".", "g", "n", "u", "p", "g", ")">>,
    <<"c", "u", "r", "l", ".", "*", "(", "-", "d", "|", "-", "-", "d", "a", "t", "a", ")", ".", "*", "@">>,
    <<"c", "u", "r", "l", ".", "*", "-", "-", "u", "p", "l", "o", "a", "d", "-", "f", "i", "l", "e">>,
    <<"w", "g", "e", "t", ".", "*", "-", "-", "p", "o", "s", "t", "-", "f", "i", "l", "e">>,
    <<"b", "a", "s", "e", "6", "4", ".", "*", "(", "\\", ".", "e", "n", "v", "|", "c", "r", "e", "d", "e", "n", "t", "i", "a", "l", "s", "|", "k", "e", "y", "|", "s", "e", "c", "r", "e", "t", ")">>,
    <<"t", "a", "r", ".", "*", "\\", ".", "(", "e", "n", "v", "|", "s", "s", "h", "|", "a", "w", "s", "|", "g", "n", "u", "p", "g", ")">>,
    <<"z", "i", "p", ".", "*", "\\", ".", "(", "e", "n", "v", "|", "s", "s", "h", "|", "a", "w", "s", "|", "g", "n", "u", "p", "g", ")">>,
    <<"s", "c", "p", "\\", "s">>,
    <<"r", "s", "y", "n", "c", ".", "*", "@">>,
    <<"n", "c", "\\", "s", ".", "*", "<">>,
    <<"c", "u", "r", "l", ".", "*", "p", "a", "s", "t", "e", "b", "i", "n">>,
    <<"c", "u", "r", "l", ".", "*", "t", "r", "a", "n", "s", "f", "e", "r", "\\", ".", "s", "h">>,
    <<"c", "u", "r", "l", ".", "*", "f", "i", "l", "e", "\\", ".", "i", "o">>,
    <<"c", "u", "r", "l", ".", "*", "0", "x", "0", "\\", ".", "s", "t">>>>

SENSITIVE_FILE_PATTERNS ==
  <<<<"~", "?", "/", "?", "\\", ".", "s", "s", "h", "/">>,
    <<"~", "?", "/", "?", "\\", ".", "a", "w", "s", "/">>,
    <<"~", "?", "/", "?", "\\", ".", "g", "n", "u", "p", "g", "/">>,
    <<"~", "?", "/", "?", "\\", ".", "c", "o", "n", "f", "i", "g", "/", "g", "c", "l", "o", "u", "d">>,
    <<"~", "?", "/", "?", "\\", ".", "k", "u", "b", "e", "/">>,
    <<"~", "?", "/", "?", "\\", ".", "a", "z", "u", "r", "e", "/">>,
    <<"\\", ".", "e", "n", "v">>,
    <<"c", "r", "e", "d", "e", "n", "t", "i", "a", "l", "s">>,
    <<"s", "e", "c", "r", "e", "t", "s", "?", "\\", ".">>,
    <<".", "*", "_", "k", "e", "y", "(", "\\", ".", "p", "e", "m", ")", "?">>,
    <<".", "*", "\\", ".", "p", "e", "m">>,
    <<".", "*", "\\", ".", "k", "e", "y">>,
    <<"i", "d", "_", "r", "s", "a">>,
    <<"i", "d", "_", "e", "d", "2", "5", "5", "1", "9">>,
    <<"\\", ".", "n", "p", "m", "r", "c">>,
    <<"\\", ".", "p", "y", "p", "i", "r", "c">>,
    <<"\\", ".", "n", "e", "t", "r", "c">>>>

\* the verbs of the sensitive-file heuristic (is_data_theft)
EXFIL_OPS ==
  <<<<"c", "a", "t">>,
    <<"c", "u", "r", "l">>,
    <<"w", "g", "e", "t">>,
    <<"n", "c">>,
    <<"s", "c", "p">>,
    <<"r", "s", "y", "n", "c">>,
    <<"t", "a", "r">>,
    <<"z", "i", "p">>,
    <<"b", "a", "s", "e", "6", "4">>>>

\* d[cmd] for a catalog dict, and (cmd in d)
CatalogHas(d, cmd) == \E k \in DOMAIN d : d[k].cmd = cmd
CatalogGet(d, cmd) == d[CHOOSE k \in DOMAIN d : d[k].cmd = cmd].args

\* the toggle with the default of the environment variable inverted
EnableDataTheftPreventionDefaultTrue(env) ==
  LowerStr(IF env.set THEN env.v ELSE <<"t", "r", "u", "e">>)
    = <<"t", "r", "u", "e">>

\* os.environ.get('ENABLE_DATA_THEFT_PREVENTION', 'false').lower() == 'true'
EnableDataTheftPrevention(env) ==
  LowerStr(IF env.set THEN env.v ELSE <<"f", "a", "l", "s", "e">>)
    = <<"t", "r", "u", "e">>

(***************************************************************************)
(* intercept.py: analysis functions.  Each returns [hit, what]: the        *)
(* boolean of the returned tuple and the catalog entry named in the reason *)
(***************************************************************************)

NoHit == [hit |-> FALSE, what |-> <<>>]

\* the first element of the sequence l that satisfies Test, as a hit
FirstHit(l, Test(_)) ==
  Bind({k \in DOMAIN l : Test(l[k])}, LAMBDA hits :
    IF hits = {} THEN NoHit
    ELSE [hit |-> TRUE, what |-> l[CHOOSE k \in hits : \A j \in hits : k <= j]])

is_blocked(command) ==
  Bind(Split(command), LAMBDA parts :
    IF parts = <<>> THEN NoHit
    ELSE
      LET cmd   == parts[1]
          args  == Join(Tail(parts))
          byCmd == IF CatalogHas(BLOCKED_COMMANDS, cmd)
                     THEN FirstHit(CatalogGet(BLOCKED_COMMANDS, cmd),
                                   LAMBDA blocked : blocked = <<"*">> \/ IsSubstr(blocked, args))
                     ELSE NoHit
      IN  IF byCmd.hit THEN byCmd
          ELSE FirstHit(DANGEROUS_PATTERNS,
                        LAMBDA pattern : ReSearch(pattern, command) = "match"))

is_data_theft(command, enabled) ==
  IF ~enabled THEN NoHit
  ELSE
    Bind(FirstHit(DATA_THEFT_PATTERNS,
                  LAMBDA pattern : ReSearch(pattern, command) = "match"),
         LAMBDA byPat :
      IF byPat.hit THEN byPat
      ELSE IF \E k \in DOMAIN EXFIL_OPS : IsSubstr(EXFIL_OPS[k], command)
        THEN FirstHit(SENSITIVE_FILE_PATTERNS,
                      LAMBDA pattern : ReSearch(pattern, command) = "match")
        ELSE NoHit)

needs_confirmation(command) ==
  Bind(Split(command), LAMBDA parts :
    IF parts = <<>> THEN NoHit
    ELSE
      LET cmd  == parts[1]
          args == Join(Tail(parts))
      IN  IF CatalogHas(CONFIRM_COMMANDS, cmd)
            THEN FirstHit(CatalogGet(CONFIRM_COMMANDS, cmd),
                          LAMBDA confirm_arg : IsSubstr(confirm_arg, args))
            ELSE NoHit)

(***************************************************************************)
(* intercept-enhanced.py: configuration values                            *)
(*                                                                         *)
(* A YAML value is a record with a field kind: "map" (m: a function from   *)
(* keys to values), "list" (items), "str" (v), "null" (Python None).  A    *)
(* rule is such a "map" whose values are strings; only the keys pattern    *)
(* and reason are modelled (message, suggestion, alternatives and prompt   *)
(* are printed and never read by the logic).                               *)
(***************************************************************************)

PyNone == [kind |-> "null"]
PyStr(s) == [kind |-> "str", v |-> s]
PyList(items) == [kind |-> "list", items |-> items]
PyMap(m) == [kind |-> "map", m |-> m]
EmptyMap == [k \in {} |-> PyNone]

\* dict.get(key, default) on a value known to be a map
DictGet(d, key, default) == IF key \in DOMAIN d.m THEN d.m[key] ELSE default

\* bool(d) of a dict: an empty dict is falsy
Truthy(d) == DOMAIN d.m # {}

\* the fallback of load_permissions_config and of main
DefaultConfig ==
  PyMap([deny |-> PyList(<<>>), ask |-> PyList(<<>>), allow |-> PyList(<<>>)])

\* find_config_file: the first search directory in which the file exists
\* (0 if none); files[d] is "absent" or the state of the file in directory d
find_config_file(files) ==
  IF \E d \in DOMAIN files : files[d] # "absent"
    THEN CHOOSE d \in DOMAIN files :
           files[d] # "absent" /\ \A e \in 1..(d - 1) : files[e] = "absent"
    ELSE 0

\* load_permissions_config: the parsed document, the default, or the
\* exception of open / yaml.safe_load
load_permissions_config(files, docs) ==
  LET d == find_config_file(files)
  IN  IF d = 0 THEN [ok |-> TRUE, config |-> DefaultConfig]
      ELSE IF files[d] = "unparsable" THEN [ok |-> FALSE, config |-> PyNone]
      ELSE [ok |-> TRUE, config |-> docs[d]]

(***************************************************************************)
(* intercept-enhanced.py: command analysis                                 *)
(***************************************************************************)

parse_command(command) ==
  LET parts == Split(command)
  IN  IF parts = <<>> THEN [cmd |-> <<>>, args |-> <<>>]
      ELSE [cmd |-> Head(parts), args |-> Tail(parts)]

RegexPrefix == <<"r", "e", "g", "e", "x", ":">>

\* match_pattern with the literal argument pattern compared without regard
\* to case
match_pattern_nocase(command, pattern) ==
  LET colon       == FirstIndex(pattern, ":")
      cmd_pattern == IF colon > 0 THEN SubSeq(pattern, 1, colon - 1) ELSE pattern
      arg_pattern == IF colon > 0 THEN SubSeq(pattern, colon + 1, Len(pattern))
                     ELSE <<"*">>
      parsed      == parse_command(command)
      args_str    == Join(parsed.args)
  IN  IF cmd_pattern # <<"*">> /\ parsed.cmd # cmd_pattern THEN "nomatch"
      ELSE IF arg_pattern = <<"*">> THEN "match"
      ELSE IF StartsWith(arg_pattern, RegexPrefix)
        THEN ReSearch(SubSeq(arg_pattern, 7, Len(arg_pattern)), args_str)
      ELSE IF IsSubstr(LowerStr(arg_pattern), LowerStr(args_str)) THEN "match" ELSE "nomatch"

\* "match", "nomatch", or "error" where re.search raises re.error
match_pattern(command, pattern) ==
  LET colon       == FirstIndex(pattern, ":")
      cmd_pattern == IF colon > 0 THEN SubSeq(pattern, 1, colon - 1) ELSE pattern
      arg_pattern == IF colon > 0 THEN SubSeq(pattern, colon + 1, Len(pattern))
                     ELSE <<"*">>
      pc          == parse_command(command)
      args_str    == Join(pc.args)
  IN  IF cmd_pattern # <<"*">> /\ pc.cmd # cmd_pattern THEN "nomatch"
      ELSE IF arg_pattern = <<"*">> THEN "match"
      ELSE IF StartsWith(arg_pattern, RegexPrefix)
        THEN ReSearch(SubSeq(arg_pattern, 7, Len(arg_pattern)), args_str)
      ELSE IF IsSubstr(arg_pattern, args_str) THEN "match" ELSE "nomatch"

\* the scan of find_matching_rule from entry i of a list: the index of the
\* first matching rule (kind "rule"), kind "none", or kind "raise" with the
\* exception; seen is the number of entries handed to match_pattern
RECURSIVE ScanRules(_, _, _)
ScanRules(command, items, i) ==
  IF i > Len(items)
    THEN [kind |-> "none", idx |-> 0, exc |-> "", seen |-> Len(items)]
  ELSE IF items[i].kind # "map"
    THEN [kind |-> "raise", idx |-> 0, exc |-> "AttributeError", seen |-> i - 1]
  ELSE
    Bind(match_pattern(command, DictGet(items[i], "pattern", PyStr(<<>>)).v),
         LAMBDA m :
      IF m = "error"
        THEN [kind |-> "raise", idx |-> 0, exc |-> "re.error", seen |-> i]
      ELSE IF m = "match"
        THEN [kind |-> "rule", idx |-> i, exc |-> "", seen |-> i]
      ELSE ScanRules(command, items, i + 1))

\* find_matching_rule(command, rules) for whatever value config.get returned:
\* iterating None raises TypeError, iterating a string yields its characters
\* (strings, which have no .get)
find_matching_rule(command, rules) ==
  CASE rules.kind = "list" -> ScanRules(command, rules.items, 1)
    [] rules.kind = "null" ->
         [kind |-> "raise", idx |-> 0, exc |-> "TypeError", seen |-> 0]
    [] rules.kind = "str" ->
         IF rules.v = <<>>
           THEN [kind |-> "none", idx |-> 0, exc |-> "", seen |-> 0]
           ELSE [kind |-> "raise", idx |-> 0, exc |-> "AttributeError", seen |-> 0]
    [] rules.kind = "map" ->
         IF DOMAIN rules.m = {}
           THEN [kind |-> "none", idx |-> 0, exc |-> "", seen |-> 0]
           ELSE [kind |-> "raise", idx |-> 0, exc |-> "AttributeError", seen |-> 0]

\* config.get(key, []) in main: AttributeError unless config is a dict
ConfigGet(config, key) ==
  IF config.kind = "map"
    THEN [ok |-> TRUE, v |-> DictGet(config, key, PyList(<<>>))]
    ELSE [ok |-> FALSE, v |-> PyNone]

\* rule.get('reason', '')
RuleReason(rule) == DictGet(rule, "reason", PyStr(<<>>)).v

(***************************************************************************)
(* The inputs that are enumerated                                          *)
(***************************************************************************)

ExecFlag == <<"-", "-", "e", "x", "e", "c">>

CmdRmRf    == <<"r", "m", " ", "-", "r", "f", " ", "/">>
CmdLs      == <<"l", "s", " ", "-", "l", "a">>
CmdNpm     == <<"n", "p", "m", " ", "i", "n", "s", "t", "a", "l", "l", " ", "x">>
CmdGitPush == <<"g", "i", "t", " ", "p", "u", "s", "h">>
CmdEmpty   == <<>>
CmdCatEnv  == <<"c", "a", "t", " ", ".", "e", "n", "v">>
CmdPipeSh  == <<"x", " ", "|", " ", " ", "S", "H">>
CmdReboot  == <<"r", "e", "b", "o", "o", "t">>
CmdNpmUpper == <<"n", "p", "m", " ", "I", "N", "S", "T", "A", "L", "L", " ", "x">>
CmdZipPem == <<"z", "i", "p", " ", "a", ".", "p", "e", "m">>
CmdCatEnvSh == <<"c", "a", "t", " ", ".", "e", "n", "v", " ", "|", " ", "s", "h">>
CmdDockerCat == <<"d", "o", "c", "k", "e", "r", " ", "r", "u", "n", " ", "x", " ", "c", "a", "t", " ", ".", "e", "n", "v">>
CmdGitPushRm == <<"g", "i", "t", " ", "p", "u", "s", "h", " ", ";", "r", "m", " ", "-", "x">>

\* command lines of intercept.py (sys.argv[1:])
BasicArgvs ==
  { <<>>, <<CmdRmRf>>, <<CmdLs>>, <<CmdNpm>>, <<CmdGitPush>>, <<CmdEmpty>>,
    <<CmdCatEnv>>, <<CmdPipeSh>>, <<CmdReboot>>,
    <<CmdZipPem>>, <<CmdCatEnvSh>>, <<CmdDockerCat>>, <<CmdGitPushRm>>,
    <<<<"n", "p", "m">>, <<"i", "n", "s", "t", "a", "l", "l">>>> }

\* command lines of intercept-enhanced.py (sys.argv[1:])
EnhancedCommands == {CmdRmRf, CmdLs, CmdNpm, CmdGitPush, CmdEmpty, CmdNpmUpper}
EnhancedArgvs ==
  { <<>>, <<ExecFlag>>, <<<<"l", "s">>, <<"-", "l", "a">>>> }
    \cup {<<c>> : c \in EnhancedCommands}
    \cup {<<ExecFlag, c>> : c \in EnhancedCommands}

\* values of the environment variable ENABLE_DATA_THEFT_PREVENTION
EnvValues ==
  { [set |-> FALSE, v |-> <<>>],
    [set |-> TRUE, v |-> <<"t", "r", "u", "e">>],
    [set |-> TRUE, v |-> <<"T", "R", "U", "E">>],
    [set |-> TRUE, v |-> <<"1">>] }

\* rules of permissions.yaml
RuleRm    == PyMap([pattern |-> PyStr(<<"r", "m">>), reason |-> PyStr(<<"d", "e", "s", "t", "r", "u", "c", "t", "i", "v", "e">>)])
RuleNpm   == PyMap([pattern |-> PyStr(<<"n", "p", "m", ":", "i", "n", "s", "t", "a", "l", "l">>), reason |-> PyStr(<<"p", "a", "c", "k", "a", "g", "e", "s">>)])
RuleAny   == PyMap([pattern |-> PyStr(<<"*">>)])
RuleBadRe == PyMap([pattern |-> PyStr(<<"g", "i", "t", ":", "r", "e", "g", "e", "x", ":", "(">>)])
RuleGitRe == PyMap([pattern |-> PyStr(<<"g", "i", "t", ":", "r", "e", "g", "e", "x", ":", "P", "U", ".", "*">>)])
RuleEmpty == PyMap(EmptyMap)

RulePool == {RuleRm, RuleNpm, RuleAny, RuleBadRe, RuleGitRe, RuleEmpty}

\* the sequences over S of length at most n
RECURSIVE SeqsUpTo(_, _)
SeqsUpTo(S, n) ==
  IF n = 0 THEN {<<>>}
  ELSE LET shorter == SeqsUpTo(S, n - 1)
       IN  shorter \cup {Append(q, e) : q \in shorter, e \in S}

\* documents with the three rule lists, at most MaxRules rules in all
RuleDocs ==
  UNION { UNION { { PyMap([deny |-> PyList(d), ask |-> PyList(a), allow |-> PyList(w)]) :
                      w \in SeqsUpTo(RulePool, MaxRules - Len(d) - Len(a)) } :
                  a \in SeqsUpTo(RulePool, MaxRules - Len(d)) } :
          d \in SeqsUpTo(RulePool, MaxRules) }

\* documents that are not three lists of rule mappings
OddDocs ==
  { PyNone,                                         \* an empty file
    PyList(<<RuleRm>>),                             \* a top-level list
    PyStr(<<"x">>),                                 \* a top-level scalar
    PyMap(EmptyMap),                                \* a mapping without the keys
    PyMap([ask |-> PyList(<<RuleNpm>>)]),           \* deny and allow absent
    PyMap([deny |-> PyNone]),                       \* "deny:" with no value
    PyMap([deny |-> PyList(<<>>), ask |-> PyStr(<<"x">>)]),
    PyMap([deny |-> PyList(<<PyStr(<<"r", "m">>)>>)]),   \* a rule that is a scalar
    PyMap([allow |-> PyNone]) }

\* number of directories load_permissions_config searches
NumSearchDirs == 5

\* states of the file system: no permissions.yaml anywhere, an unparsable
\* one, or a parsed one; a file in the first directory hides one further down
AllAbsent == [d \in 1..NumSearchDirs |-> "absent"]
NoDocs == [d \in 1..NumSearchDirs |-> PyNone]
FileSystems ==
  { [files |-> AllAbsent, docs |-> NoDocs],
    [files |-> [AllAbsent EXCEPT ![2] = "unparsable"], docs |-> NoDocs],
    [files |-> [AllAbsent EXCEPT ![1] = "unparsable", ![4] = "ok"],
     docs |-> [NoDocs EXCEPT ![4] = DefaultConfig]] }
    \cup { [files |-> [AllAbsent EXCEPT ![1] = "ok", ![5] = "ok"],
            docs |-> [NoDocs EXCEPT ![1] = doc, ![5] = PyMap([deny |-> PyList(<<RuleAny>>)])]] :
             doc \in RuleDocs \cup OddDocs }

\* what input() delivers: a line, end of input, or an interrupt
Responses ==
  { [kind |-> "line", v |-> <<"y">>], [kind |-> "line", v |-> <<"Y">>],
    [kind |-> "line", v |-> <<" ", "y", " ">>], [kind |-> "line", v |-> <<"n">>],
    [kind |-> "line", v |-> <<>>], [kind |-> "line", v |-> <<"y", "e", "s">>],
    [kind |-> "eof", v |-> <<>>], [kind |-> "interrupt", v |-> <<>>] }

\* what subprocess.run(command, shell=True) does: it returns with the
\* shell's return code (negative: killed by that signal), or raises OSError
\* because the shell could not be started
RunOutcomes ==
  { [kind |-> "returned", rc |-> 0], [kind |-> "returned", rc |-> 1],
    [kind |-> "returned", rc |-> 127], [kind |-> "returned", rc |-> -9],
    [kind |-> "oserror", rc |-> 0] }

\* the process exit status of sys.exit(n)
ExitCode(n) == n % 256

(***************************************************************************)
(* State of one invocation                                                 *)
(***************************************************************************)

VARIABLES
  variant,     \* "basic" (intercept.py) or "enhanced" (intercept-enhanced.py)
  argv,        \* sys.argv[1:]
  environ,     \* the value of ENABLE_DATA_THEFT_PREVENTION
  fs,          \* permissions.yaml in the search directories
  pc,          \* position in main
  exec_mode,   \* main's exec_mode (intercept.py always executes)
  command,     \* main's command
  config,      \* main's config
  ask_rule,    \* the rule (or catalog entry) awaiting confirmation
  log,         \* the lines appended by log_command, in order
  consulted,   \* the <<tier, index>> of every rule handed to match_pattern
  prompts,     \* number of calls of input()
  answers,     \* what the calls of input() delivered, in order
  executed,    \* the commands handed to subprocess.run, in order
  run_result,  \* what the calls of subprocess.run did, in order
  raised,      \* the uncaught exception that ended the process, or "none"
  exitStatus,  \* the exit status, or -1 while the process runs
  wpc,         \* concurrent invocations: each one's position in log_command
  wentry,      \* concurrent invocations: each one's log_entry
  wbuf,        \* concurrent invocations: what each one's file object holds
  logfile      \* the characters of the shared log file, in order

vars == <<variant, argv, environ, fs, pc, exec_mode, command, config, ask_rule,
          log, consulted, prompts, answers, executed, run_result, raised,
          exitStatus, wpc, wentry, wbuf, logfile>>

\* the state of the concurrent writers of the log file; the actions of one
\* invocation's main leave it unchanged
logvars == <<wpc, wentry, wbuf, logfile>>

\* the state of one invocation's main; log_command run by the concurrent
\* writers leaves it unchanged
mainvars == <<variant, argv, environ, fs, pc, exec_mode, command, config,
              ask_rule, log, consulted, prompts, answers, executed, run_result,
              raised, exitStatus>>

inputs == <<variant, argv, environ, fs>>

\* the state of main before its first statement
InitLocals ==
  /\ pc = "start"
  /\ exec_mode = FALSE
  /\ command = <<>>
  /\ config = PyNone
  /\ ask_rule = PyNone
  /\ log = <<>>
  /\ consulted = <<>>
  /\ prompts = 0
  /\ answers = <<>>
  /\ executed = <<>>
  /\ run_result = <<>>
  /\ raised = "none"
  /\ exitStatus = -1

Init ==
  /\ wpc = <<>> /\ wentry = <<>> /\ wbuf = <<>> /\ logfile = <<>>
  /\ \/ /\ variant = "basic"
        /\ argv \in BasicArgvs
        /\ environ \in EnvValues
        /\ fs = [files |-> AllAbsent, docs |-> NoDocs]
     \/ /\ variant = "enhanced"
        /\ argv \in EnhancedArgvs
        /\ environ \in {[set |-> FALSE, v |-> <<>>]}
        /\ fs \in FileSystems
  /\ InitLocals

\* log_command(command, status, reason): one line appended to the log
\* (the timestamp, the only other content of the line, is not modelled)
LogLine(status, cmd, reason) ==
  [status |-> status, command |-> cmd, reason |-> reason]

\* an uncaught exception: the interpreter prints the traceback and exits
\* with status 1 (130 after an uncaught KeyboardInterrupt)
Crash(exc) ==
  /\ raised' = exc
  /\ exitStatus' = IF exc = "KeyboardInterrupt" THEN 130 ELSE 1
  /\ pc' = "done"

\* sys.exit(status)
Exit(status) ==
  /\ raised' = raised
  /\ exitStatus' = ExitCode(status)
  /\ pc' = "done"

Goto(label) ==
  /\ raised' = raised
  /\ exitStatus' = exitStatus
  /\ pc' = label

\* response = input(...).strip().lower(); response == 'y'
SaysYes(r) == r.kind = "line" /\ LowerStr(Strip(r.v)) = <<"y">>

Consult(tier, n) == consulted \o [i \in 1..n |-> <<tier, i>>]

(***************************************************************************)
(* intercept-enhanced.py: main                                             *)
(***************************************************************************)

\* usage check, --exec flag, command
E_ParseArgs ==
  /\ variant = "enhanced" /\ pc = "start"
  /\ IF Len(argv) < 1
       THEN /\ Exit(1)
            /\ UNCHANGED <<exec_mode, command>>
       ELSE /\ exec_mode' = (argv[1] = ExecFlag)
            /\ command' = Join(IF argv[1] = ExecFlag THEN Tail(argv) ELSE argv)
            /\ Goto("load")
  /\ UNCHANGED <<inputs, logvars, config, ask_rule, log, consulted, prompts, answers, executed, run_result>>

\* load the configuration; any exception falls back to the minimal default
E_LoadConfig ==
  /\ variant = "enhanced" /\ pc = "load"
  /\ LET r == load_permissions_config(fs.files, fs.docs)
     IN  config' = IF r.ok THEN r.config ELSE DefaultConfig
  /\ Goto("deny")
  /\ UNCHANGED <<inputs, logvars, exec_mode, command, ask_rule, log, consulted, prompts,
                 answers, executed, run_result>>

\* check DENY rules
E_CheckDeny ==
  /\ variant = "enhanced" /\ pc = "deny"
  /\ \E g \in {ConfigGet(config, "deny")} :
     \E f \in {IF g.ok THEN find_matching_rule(command, g.v)
                        ELSE find_matching_rule(command, PyList(<<>>))} :
         IF ~g.ok
           THEN Crash("AttributeError") /\ UNCHANGED <<log, consulted>>
         ELSE /\ consulted' = Consult("deny", f.seen)
              /\ IF f.kind = "raise"
                   THEN Crash(f.exc) /\ UNCHANGED log
                 ELSE IF f.kind = "rule" /\ Truthy(g.v.items[f.idx])
                   THEN /\ log' = Append(log, LogLine("BLOCKED", command,
                                                    RuleReason(g.v.items[f.idx])))
                        /\ Exit(1)
                 ELSE Goto("ask") /\ UNCHANGED log
  /\ UNCHANGED <<inputs, logvars, exec_mode, command, config, ask_rule, prompts, answers,
                 executed, run_result>>

\* check ASK rules; in exec mode print_ask_message prints the prompt and
\* calls input()
E_CheckAsk ==
  /\ variant = "enhanced" /\ pc = "ask"
  /\ \E g \in {ConfigGet(config, "ask")} :
     \E f \in {IF g.ok THEN find_matching_rule(command, g.v)
                        ELSE find_matching_rule(command, PyList(<<>>))} :
         IF ~g.ok
           THEN Crash("AttributeError") /\ UNCHANGED <<log, consulted, ask_rule, prompts>>
         ELSE /\ consulted' = Consult("ask", f.seen)
              /\ IF f.kind = "raise"
                   THEN Crash(f.exc) /\ UNCHANGED <<log, ask_rule, prompts>>
                 ELSE IF f.kind = "rule" /\ Truthy(g.v.items[f.idx])
                   THEN IF ~exec_mode
                          THEN /\ log' = Append(log, LogLine("ALLOWED_ASK_DEFERRED", command,
                                                           RuleReason(g.v.items[f.idx])))
                               /\ Exit(0)
                               /\ UNCHANGED <<ask_rule, prompts>>
                          ELSE /\ ask_rule' = g.v.items[f.idx]
                               /\ prompts' = prompts + 1
                               /\ Goto("confirm")
                               /\ UNCHANGED log
                 ELSE Goto("allow") /\ UNCHANGED <<log, ask_rule, prompts>>
  /\ UNCHANGED <<inputs, logvars, exec_mode, command, config, answers, executed, run_result>>

\* input() returns or raises; EOFError and KeyboardInterrupt count as "no"
E_Confirm ==
  /\ variant = "enhanced" /\ pc = "confirm"
  /\ \E r \in Responses :
       /\ answers' = Append(answers, r)
       /\ IF ~SaysYes(r)
            THEN /\ log' = Append(log, LogLine("DENIED_BY_USER", command, RuleReason(ask_rule)))
                 /\ Exit(1)
            ELSE /\ log' = Append(log, LogLine("APPROVED_BY_USER", command, RuleReason(ask_rule)))
                 /\ Goto("allow")
  /\ UNCHANGED <<inputs, logvars, exec_mode, command, config, ask_rule, consulted, prompts,
                 executed, run_result>>

\* check ALLOW rules (for logging/auditing); check-only mode ends here
E_CheckAllow ==
  /\ variant = "enhanced" /\ pc = "allow"
  /\ \E g \in {ConfigGet(config, "allow")} :
     \E f \in {IF g.ok THEN find_matching_rule(command, g.v)
                        ELSE find_matching_rule(command, PyList(<<>>))} :
         IF ~g.ok
           THEN Crash("AttributeError") /\ UNCHANGED <<log, consulted>>
         ELSE /\ consulted' = Consult("allow", f.seen)
              /\ IF f.kind = "raise"
                   THEN Crash(f.exc) /\ UNCHANGED log
                 ELSE /\ log' = Append(log,
                                  IF f.kind = "rule" /\ Truthy(g.v.items[f.idx])
                                    THEN LogLine("ALLOWED", command,
                                                 RuleReason(g.v.items[f.idx]))
                                    ELSE LogLine("ALLOWED_DEFAULT", command,
                                                 <<"N", "o", " ", "m", "a", "t", "c", "h", "i", "n", "g", " ", "r", "u", "l", "e">>))
                      /\ IF exec_mode THEN Goto("run") ELSE Exit(0)
  /\ UNCHANGED <<inputs, logvars, exec_mode, command, config, ask_rule, prompts, answers,
                 executed, run_result>>

\* execute the command (only in exec mode)
E_Execute ==
  /\ variant = "enhanced" /\ pc = "run"
  /\ executed' = Append(executed, command)
  /\ \E o \in RunOutcomes :
       /\ run_result' = Append(run_result, o)
       /\ IF o.kind = "returned"
            THEN /\ Exit(o.rc)
                 /\ UNCHANGED log
            ELSE /\ log' = Append(log, LogLine("ERROR", command,
                                             <<"O", "S", "E", "r", "r", "o", "r">>))
                 /\ Exit(1)
  /\ UNCHANGED <<inputs, logvars, exec_mode, command, config, ask_rule, consulted, prompts,
                 answers>>

(***************************************************************************)
(* intercept.py: main                                                      *)
(***************************************************************************)

\* usage check, command; this program has no check-only mode
B_ParseArgs ==
  /\ variant = "basic" /\ pc = "start"
  /\ IF Len(argv) < 1
       THEN /\ Exit(1)
            /\ UNCHANGED <<exec_mode, command>>
       ELSE /\ exec_mode' = TRUE
            /\ command' = Join(argv)
            /\ Goto("harm")
  /\ UNCHANGED <<inputs, logvars, config, ask_rule, log, consulted, prompts, answers, executed, run_result>>

\* check system harm
B_CheckHarm ==
  /\ variant = "basic" /\ pc = "harm"
  /\ IF is_blocked(command).hit
       THEN /\ log' = Append(log, LogLine("BLOCKED-HARM", command, <<>>))
            /\ Exit(1)
       ELSE Goto("theft") /\ UNCHANGED log
  /\ UNCHANGED <<inputs, logvars, exec_mode, command, config, ask_rule, consulted, prompts,
                 answers, executed, run_result>>

\* check data theft (optional)
B_CheckTheft ==
  /\ variant = "basic" /\ pc = "theft"
  /\ IF is_data_theft(command, EnableDataTheftPrevention(environ)).hit
       THEN /\ log' = Append(log, LogLine("BLOCKED-DATA", command, <<>>))
            /\ Exit(1)
       ELSE Goto("confirm?") /\ UNCHANGED log
  /\ UNCHANGED <<inputs, logvars, exec_mode, command, config, ask_rule, consulted, prompts,
                 answers, executed, run_result>>

\* check confirmation needed; if so the prompt is printed and input() called
B_CheckConfirm ==
  /\ variant = "basic" /\ pc = "confirm?"
  /\ \E n \in {needs_confirmation(command)} :
         IF n.hit
           THEN /\ ask_rule' = PyStr(n.what)
                /\ prompts' = prompts + 1
                /\ Goto("confirm")
           ELSE Goto("run") /\ UNCHANGED <<ask_rule, prompts>>
  /\ UNCHANGED <<inputs, logvars, exec_mode, command, config, log, consulted, answers,
                 executed, run_result>>

\* input() returns or raises; nothing catches EOFError or KeyboardInterrupt
B_Confirm ==
  /\ variant = "basic" /\ pc = "confirm"
  /\ \E r \in Responses :
       /\ answers' = Append(answers, r)
       /\ IF r.kind = "eof" THEN Crash("EOFError") /\ UNCHANGED log
          ELSE IF r.kind = "interrupt" THEN Crash("KeyboardInterrupt") /\ UNCHANGED log
          ELSE IF ~SaysYes(r)
            THEN /\ log' = Append(log, LogLine("CANCELLED", command, <<>>))
                 /\ Exit(1)
          ELSE Goto("run") /\ UNCHANGED log
  /\ UNCHANGED <<inputs, logvars, exec_mode, command, config, ask_rule, consulted, prompts,
                 executed, run_result>>

\* execute with the log_command call left out
B_NotLogged ==
  /\ variant = "basic" /\ pc = "run"
  /\ Goto("exec")
  /\ UNCHANGED <<inputs, logvars, exec_mode, command, config, ask_rule, consulted, prompts,
                 answers, executed, run_result, log>>

\* execute: the command is logged as EXECUTED before it is run
B_LogExecuted ==
  /\ variant = "basic" /\ pc = "run"
  /\ log' = Append(log, LogLine("EXECUTED", command, <<>>))
  /\ Goto("exec")
  /\ UNCHANGED <<inputs, logvars, exec_mode, command, config, ask_rule, consulted, prompts,
                 answers, executed, run_result>>

\* execute: run, exit with the return code; nothing catches OSError
B_Execute ==
  /\ variant = "basic" /\ pc = "exec"
  /\ executed' = Append(executed, command)
  /\ \E o \in RunOutcomes :
       /\ run_result' = Append(run_result, o)
       /\ IF o.kind = "returned" THEN Exit(o.rc) ELSE Crash("OSError")
  /\ UNCHANGED <<inputs, logvars, exec_mode, command, config, ask_rule, consulted, prompts,
                 answers, log>>

Next ==
  \/ E_ParseArgs
  \/ E_LoadConfig
  \/ E_CheckDeny
  \/ E_CheckAsk
  \/ E_Confirm
  \/ E_CheckAllow
  \/ E_Execute
  \/ B_ParseArgs
  \/ B_CheckHarm
  \/ B_CheckTheft
  \/ B_CheckConfirm
  \/ B_Confirm
  \/ B_LogExecuted
  \/ B_Execute

Spec == Init /\ [][Next]_vars

(***************************************************************************)
(* log_command run by several invocations at once                          *)
(*                                                                         *)
(* Every invocation is a process of its own; the processes share the log   *)
(* file and nothing else.  log_command opens the file for appending,       *)
(* writes the entry to the file object, and leaves the with block, which   *)
(* closes the file object and so hands what it holds to the operating      *)
(* system.  No lock is taken and no other process is waited for.  One      *)
(* write on a file opened for appending adds the characters it accepts to  *)
(* the end of the file in one piece; it may accept fewer than it was       *)
(* given, and the file object then writes the rest with a further write.   *)
(***************************************************************************)

\* number of invocations that log at the same time
NumWriters == 2

\* longest text of a log entry, its newline not counted
MaxEntryLen == 2

Writers == 1..NumWriters

Newline == "\n"

\* the text of the entry of writer w: n characters that are not newlines
\* (timestamp, tag, command, reason), then the newline log_command adds
EntryChars == <<"a", "b", "c", "d">>
LogEntry(w, n) == [i \in 1..n |-> EntryChars[w]] \o <<Newline>>

LogInit ==
  /\ variant = "basic" /\ argv = <<>>
  /\ environ = [set |-> FALSE, v |-> <<>>]
  /\ fs = [files |-> AllAbsent, docs |-> NoDocs]
  /\ InitLocals
  /\ wentry \in {e \in [Writers -> UNION {{LogEntry(w, n) : n \in 1..MaxEntryLen} : w \in Writers}] :
                   \A w \in Writers : e[w][1] = EntryChars[w]}
  /\ wpc = [w \in Writers |-> "call"]
  /\ wbuf = [w \in Writers |-> <<>>]
  /\ logfile = <<>>

\* with open(log_file, 'a') as f
L_Open(w) ==
  /\ wpc[w] = "call"
  /\ wpc' = [wpc EXCEPT ![w] = "open"]
  /\ UNCHANGED <<mainvars, wentry, wbuf, logfile>>

\* f.write(log_entry): the entry goes to the file object
L_Write(w) ==
  /\ wpc[w] = "open"
  /\ wbuf' = [wbuf EXCEPT ![w] = wentry[w]]
  /\ wpc' = [wpc EXCEPT ![w] = "written"]
  /\ UNCHANGED <<mainvars, wentry, logfile>>

\* leaving the with block: one write of what the file object holds; the
\* first n characters are accepted and appended to the file
L_Flush(w) ==
  /\ wpc[w] = "written" /\ wbuf[w] # <<>>
  /\ \E n \in 1..Len(wbuf[w]) :
       /\ logfile' = logfile \o SubSeq(wbuf[w], 1, n)
       /\ wbuf' = [wbuf EXCEPT ![w] = SubSeq(wbuf[w], n + 1, Len(wbuf[w]))]
  /\ UNCHANGED <<mainvars, wpc, wentry>>

\* leaving the with block: the file object is empty and is closed
L_Close(w) ==
  /\ wpc[w] = "written" /\ wbuf[w] = <<>>
  /\ wpc' = [wpc EXCEPT ![w] = "closed"]
  /\ UNCHANGED <<mainvars, wentry, wbuf, logfile>>

LogNext ==
  \E w \in Writers :
    \/ L_Open(w)
    \/ L_Write(w)
    \/ L_Flush(w)
    \/ L_Close(w)

LogSpec == LogInit /\ [][LogNext]_vars

(***************************************************************************)
(* Vocabulary of the properties                                            *)
(***************************************************************************)

Done == pc = "done"

\* the invocation received a command (it did not stop at the usage message)
HasCommand == Len(argv) >= 1

\* the mode asked for on the command line; intercept.py has one mode only
ExecuteMode == variant = "basic" \/ (HasCommand /\ argv[1] = ExecFlag)
CheckOnlyMode == variant = "enhanced" /\ HasCommand /\ argv[1] # ExecFlag

\* the command the command line denotes
GivenCommand ==
  Join(IF variant = "enhanced" /\ HasCommand /\ argv[1] = ExecFlag
         THEN Tail(argv) ELSE argv)

Tags == {log[i].status : i \in DOMAIN log}
LastTag == IF log = <<>> THEN "" ELSE log[Len(log)].status

\* the decision an invocation ended with, read off its last audit line;
\* "none" for an invocation that ended without one (usage message or
\* traceback)
Decision ==
  IF raised # "none" \/ log = <<>> THEN "none"
  ELSE CASE LastTag \in {"BLOCKED", "BLOCKED-HARM", "BLOCKED-DATA"} -> "Blocked"
         [] LastTag = "ALLOWED_ASK_DEFERRED" -> "AskDeferred"
         [] LastTag \in {"DENIED_BY_USER", "CANCELLED"} -> "DeniedByUser"
         [] LastTag = "APPROVED_BY_USER" -> "ApprovedByUser"
         [] LastTag = "ALLOWED" -> "Allowed"
         [] LastTag = "ALLOWED_DEFAULT" -> "AllowedDefault"
         [] LastTag = "EXECUTED" -> "AllowedDefault"
         [] LastTag = "ERROR" -> "ExecutionError"

\* the permissions.yaml document the invocation reads, if it parses
UsedDoc ==
  LET d == find_config_file(fs.files)
  IN  IF d = 0 \/ fs.files[d] = "unparsable" THEN DefaultConfig ELSE fs.docs[d]

\* the entries of a tier of the document, where the tier is a list
TierEntries(tier) ==
  IF UsedDoc.kind = "map" /\ tier \in DOMAIN UsedDoc.m /\ UsedDoc.m[tier].kind = "list"
    THEN UsedDoc.m[tier].items ELSE <<>>

RulePattern(rule) == DictGet(rule, "pattern", PyStr(<<>>)).v

\* some rule of the tier matches the command
TierMatches(tier) ==
  /\ variant = "enhanced" /\ HasCommand
  /\ \E i \in DOMAIN TierEntries(tier) :
       /\ TierEntries(tier)[i].kind = "map"
       /\ match_pattern(GivenCommand, RulePattern(TierEntries(tier)[i])) = "match"

\* the SystemHarm catalog matches the command
HarmMatches == HasCommand /\ is_blocked(GivenCommand).hit

(***************************************************************************)
(* Properties                                                              *)
(***************************************************************************)

\* C1: whenever the SystemHarm catalog (BLOCKED_COMMANDS or
\* DANGEROUS_PATTERNS) matches the command, the Executor is never invoked
\* and the invocation ends Blocked with exit status 1, in either program,
\* in either mode, whatever the rule lists and the data-theft toggle are.
C1_SystemHarmAlwaysBlocked ==
  HarmMatches =>
    /\ executed = <<>>
    /\ Done => (Decision = "Blocked" /\ exitStatus = 1)

\* the DataTheft tier (active only when the toggle is on) matches the command
TheftMatches ==
  /\ variant = "basic" /\ HasCommand
  /\ is_data_theft(GivenCommand, EnableDataTheftPrevention(environ)).hit

\* an ask rule, or an entry of CONFIRM_COMMANDS, matches the command
AskMatches ==
  \/ TierMatches("ask")
  \/ variant = "basic" /\ HasCommand /\ needs_confirmation(GivenCommand).hit

BlockTags == {"BLOCKED", "BLOCKED-HARM", "BLOCKED-DATA"}
DenyTags == {"DENIED_BY_USER", "CANCELLED"}

\* the last answer read from the user is 'y' (compared, as the code compares
\* it, after strip() and lower())
AnsweredYes ==
  /\ answers # <<>>
  /\ answers[Len(answers)].kind = "line"
  /\ LowerStr(Strip(answers[Len(answers)].v)) = <<"y">>

\* input ended or was interrupted while the prompt was pending
PromptCancelled ==
  answers # <<>> /\ answers[Len(answers)].kind \in {"eof", "interrupt"}

\* the exit statuses a command that was started can itself produce
CommandStatuses == {ExitCode(o.rc) : o \in {x \in RunOutcomes : x.kind = "returned"}}

\* the configuration is missing or malformed: no file, an unparsable file, a
\* document that is not a mapping, or a deny/ask/allow entry that is absent
\* or is not a list of rule mappings
ConfigProblem ==
  /\ variant = "enhanced"
  /\ \/ find_config_file(fs.files) = 0
     \/ fs.files[find_config_file(fs.files)] = "unparsable"
     \/ UsedDoc.kind # "map"
     \/ \E tier \in {"deny", "ask", "allow"} :
          \/ tier \notin DOMAIN UsedDoc.m
          \/ UsedDoc.m[tier].kind # "list"
          \/ \E i \in DOMAIN UsedDoc.m[tier].items :
               UsedDoc.m[tier].items[i].kind # "map"

\* C2: whenever some rule of the deny list matches the command, no ask or
\* allow rule is consulted, no prompt is shown, the Executor is not invoked,
\* and the invocation ends Blocked with exit status 1, in either mode and
\* whatever the ask and allow lists contain.
C2_DenyMatchBlocked ==
  TierMatches("deny") =>
    /\ \A k \in DOMAIN consulted : consulted[k][1] = "deny"
    /\ prompts = 0
    /\ executed = <<>>
    /\ Done => (Decision = "Blocked" /\ exitStatus = 1)

\* C3: whenever the Executor has been invoked, the invocation is in execute
\* mode, no Blocked or DeniedByUser decision has been recorded, and if an
\* ask rule (or CONFIRM_COMMANDS entry) matches the command the user has
\* answered 'y'; so the Executor is never invoked in check-only mode nor
\* after a Blocked or DeniedByUser decision.
C3_ExecutorOnlyWhenPermitted ==
  executed # <<>> =>
    /\ ExecuteMode
    /\ Tags \cap (BlockTags \cup DenyTags) = {}
    /\ AskMatches => AnsweredYes

\* C4: in execute mode, for a command matched by an ask rule and by no deny
\* rule and no built-in heuristic, once the user has answered and the
\* invocation has ended: after the answer 'y' the approval is in the audit
\* log and the Executor was invoked exactly once, with the original command;
\* after any other answer the decision is DeniedByUser, the exit status is 1
\* and the Executor was not invoked.
C4_AskAnswerDecides ==
  (/\ ExecuteMode /\ AskMatches
   /\ ~TierMatches("deny") /\ ~HarmMatches /\ ~TheftMatches
   /\ answers # <<>> /\ Done) =>
    IF AnsweredYes
      THEN /\ Tags \cap {"APPROVED_BY_USER", "EXECUTED"} # {}
           /\ executed = <<GivenCommand>>
      ELSE /\ Decision = "DeniedByUser"
           /\ exitStatus = 1
           /\ executed = <<>>

\* C5: in check-only mode, for a command matched by an ask rule and by no
\* deny rule, no prompt is shown and no input is read, and the invocation
\* ends AskDeferred (audit tag ALLOWED_ASK_DEFERRED) with exit status 0.
C5_CheckOnlyAskDeferred ==
  (CheckOnlyMode /\ TierMatches("ask") /\ ~TierMatches("deny")) =>
    /\ prompts = 0
    /\ answers = <<>>
    /\ Done => (LastTag = "ALLOWED_ASK_DEFERRED" /\ Decision = "AskDeferred"
                /\ exitStatus = 0)

\* C6: when input ends or is interrupted while a confirmation prompt is
\* pending, the invocation ends exactly as after an explicit 'no': no
\* uncaught exception, DeniedByUser recorded in the audit log, exit status
\* 1, Executor not invoked.
C6_PromptCancelIsDenial ==
  PromptCancelled =>
    /\ raised = "none"
    /\ Decision = "DeniedByUser"
    /\ exitStatus = 1
    /\ executed = <<>>

\* C7: a rule whose regex is malformed never makes matching fail: every rule
\* handed to match_pattern yields a match or a non-match, and no invocation
\* ends with re.error.
C7_MalformedRegexIsNonMatch ==
  /\ raised # "re.error"
  /\ \A k \in DOMAIN consulted :
       match_pattern(command,
                     RulePattern(TierEntries(consulted[k][1])[consulted[k][2]])) # "error"

\* C8: with a missing or malformed configuration, classification is not
\* aborted: the invocation does not end with an exception raised on the
\* configuration, and once ended it has reached a decision.
C8_BadConfigDegradesToEmpty ==
  ConfigProblem =>
    /\ raised \notin {"AttributeError", "TypeError"}
    /\ (Done /\ HasCommand /\ raised = "none") => Decision # "none"

\* C9: once an invocation that invoked the Executor has ended: if the
\* Executor could not be started, ExecutionError was emitted and the exit
\* status is non-zero and is none of the statuses a started command can
\* produce; if it ran, the exit status is the Executor's.
C9_ExecutorStartFailureDistinct ==
  (Done /\ run_result # <<>>) =>
    IF run_result[Len(run_result)].kind = "oserror"
      THEN /\ raised = "none"
           /\ Decision = "ExecutionError"
           /\ exitStatus # 0
           /\ exitStatus \notin CommandStatuses
      ELSE exitStatus = ExitCode(run_result[Len(run_result)].rc)

\* C10: once an invocation that received a command has ended: in check-only
\* mode the exit status is 0 exactly when the decision is AskDeferred,
\* Allowed or AllowedDefault and 1 exactly when it is Blocked; in execute
\* mode it is 1 when the decision is Blocked or DeniedByUser and otherwise
\* it is the exit status the Executor returned.
C10_ExitStatusContract ==
  (Done /\ HasCommand) =>
    IF CheckOnlyMode
      THEN /\ exitStatus = 0 <=> Decision \in {"AskDeferred", "Allowed", "AllowedDefault"}
           /\ exitStatus = 1 <=> Decision = "Blocked"
      ELSE IF Decision \in {"Blocked", "DeniedByUser"}
        THEN exitStatus = 1
        ELSE /\ run_result # <<>>
             /\ run_result[Len(run_result)].kind = "returned"
             /\ exitStatus = ExitCode(run_result[Len(run_result)].rc)

\* no rule of any tier and no built-in heuristic matches the command
NothingMatches ==
  /\ HasCommand
  /\ \A tier \in {"deny", "ask", "allow"} : ~TierMatches(tier)
  /\ ~AskMatches /\ ~TheftMatches /\ ~HarmMatches

\* the audit tag of the default-allow outcome (intercept.py, which always
\* executes, logs it as EXECUTED)
DefaultTag == IF variant = "basic" THEN "EXECUTED" ELSE "ALLOWED_DEFAULT"

\* C11: an invocation whose command matches no rule of any tier and no
\* built-in heuristic ends with the default-allow audit line: in check-only
\* mode with exit status 0 and without the Executor, in execute mode with
\* the command handed to the Executor.
C11_NoMatchIsAllowedDefault ==
  (Done /\ NothingMatches) =>
    /\ DefaultTag \in Tags
    /\ CheckOnlyMode => (exitStatus = 0 /\ executed = <<>>)
    /\ ExecuteMode => executed = <<GivenCommand>>

\* the command has no whitespace-separated tokens
EmptyCommand == HasCommand /\ Split(GivenCommand) = <<>>

\* C12: for the empty command no rule handed to match_pattern matches, no
\* built-in catalog matches, nothing is Blocked and no confirmation prompt
\* is shown.
C12_EmptyCommandMatchesNothing ==
  EmptyCommand =>
    /\ \A k \in DOMAIN consulted :
         match_pattern(command,
                       RulePattern(TierEntries(consulted[k][1])[consulted[k][2]])) # "match"
    /\ ~is_blocked(GivenCommand).hit
    /\ ~is_data_theft(GivenCommand, TRUE).hit
    /\ ~needs_confirmation(GivenCommand).hit
    /\ Tags \cap BlockTags = {}
    /\ prompts = 0

\* C13: an invocation that received a command does not end without an audit
\* line for its outcome: once ended, its last audit line carries the tag of
\* a decision, every audit line carries the command text, and an Executor
\* that could not be started is recorded as ERROR.
C13_EveryOutcomeAudited ==
  (Done /\ HasCommand) =>
    /\ log # <<>>
    /\ Decision # "none"
    /\ \A i \in DOMAIN log : log[i].command = GivenCommand
    /\ (run_result # <<>> /\ run_result[Len(run_result)].kind = "oserror")
         => LastTag = "ERROR"

\* writer w has returned from log_command
Logged(w) == w \in DOMAIN wpc /\ wpc[w] = "closed"

\* the entry of writer w is in the file as one complete line: contiguous,
\* starting at the beginning of a line
WholeLine(w) ==
  \E i \in 1..Len(logfile) :
    /\ i + Len(wentry[w]) - 1 <= Len(logfile)
    /\ SubSeq(logfile, i, i + Len(wentry[w]) - 1) = wentry[w]
    /\ (i = 1 \/ logfile[i - 1] = Newline)

\* C14: when several invocations append to the same audit log, the entry of
\* every invocation that has returned from log_command is in the log as one
\* complete contiguous line, not interleaved with another invocation's.
C14_LogLinesNeverInterleaved ==
  \A w \in DOMAIN wpc : Logged(w) => WholeLine(w)

\* the toggle of the data-exfiltration tier of intercept.py
ToggleOn == EnableDataTheftPrevention(environ)

\* the command matches a data-theft pattern, or a sensitive-file pattern
\* together with an exfiltration-capable verb (whatever the toggle is)
TheftPatternMatches ==
  variant = "basic" /\ HasCommand /\ is_data_theft(GivenCommand, TRUE).hit

Loaded == variant = "enhanced" /\ HasCommand /\ pc \notin {"start", "load"}

\* the tier of the loaded configuration is a list of rules (mappings)
RuleList(tier) ==
  /\ config.kind = "map"
  /\ ConfigGet(config, tier).v.kind = "list"
  /\ \A i \in DOMAIN ConfigGet(config, tier).v.items :
       ConfigGet(config, tier).v.items[i].kind = "map"

\* the index of the first rule of the tier whose pattern matches the
\* command, 0 when there is none
FirstMatch(tier) ==
  LET items == ConfigGet(config, tier).v.items
      hits  == {i \in DOMAIN items :
                  match_pattern(command, RulePattern(items[i])) = "match"}
  IN  IF hits = {} THEN 0 ELSE CHOOSE i \in hits : \A j \in hits : i <= j

\* C16: for every tier of the loaded configuration that is a list of rules,
\* find_matching_rule returns the lowest-index rule whose pattern matches
\* the command and None when no rule matches; no rule after the first
\* matching one is handed to match_pattern; the configuration is the
\* document that was read, unchanged.
C16_FirstMatchingRule ==
  Loaded =>
    /\ config = UsedDoc
    /\ \A tier \in {"deny", "ask", "allow"} :
         RuleList(tier) =>
           /\ \E f \in {find_matching_rule(command, ConfigGet(config, tier).v)} :
                IF FirstMatch(tier) = 0
                  THEN f.kind = "none"
                  ELSE f.kind = "rule" /\ f.idx = FirstMatch(tier)
           /\ \A k \in DOMAIN consulted :
                (consulted[k][1] = tier /\ FirstMatch(tier) # 0)
                  => consulted[k][2] <= FirstMatch(tier)

\* a tier that blocks matches the command: the SystemHarm catalog, the
\* DataTheft tier when it is enabled, or the deny list
BlockingTierMatches == TierMatches("deny") \/ TheftMatches \/ HarmMatches

TierRank(tier) == CASE tier = "deny" -> 1 [] tier = "ask" -> 2 [] tier = "allow" -> 3

\* C17: the decision comes from the highest-priority tier that matches: a
\* command matching SystemHarm and DataTheft ends as a system-harm block; a
\* command matching a blocking tier and the ask/confirm tier is never
\* prompted for and ends Blocked; rules are consulted deny first, then ask,
\* then allow.
C17_TierPriority ==
  /\ (Done /\ TheftMatches /\ HarmMatches) => LastTag = "BLOCKED-HARM"
  /\ (AskMatches /\ BlockingTierMatches) =>
       (prompts = 0 /\ (Done => Decision = "Blocked"))
  /\ \A i, j \in DOMAIN consulted :
       i < j => TierRank(consulted[i][1]) <= TierRank(consulted[j][1])

\* the reference matcher: programSpec is the pattern up to its first ':',
\* argSpec what follows it, '*' when the pattern has no ':'
RefProgramSpec(pattern) ==
  IF \E i \in DOMAIN pattern : pattern[i] = ":"
    THEN SubSeq(pattern, 1, (CHOOSE i \in DOMAIN pattern :
                               pattern[i] = ":" /\ \A j \in 1..(i - 1) : pattern[j] # ":") - 1)
    ELSE pattern

RefArgSpec(pattern) ==
  IF \E i \in DOMAIN pattern : pattern[i] = ":"
    THEN SubSeq(pattern, Len(RefProgramSpec(pattern)) + 2, Len(pattern))
    ELSE <<"*">>

\* the command's first token (the empty string when it has none) and its
\* remaining tokens joined by single spaces
RefProgram(cmd) == IF Split(cmd) = <<>> THEN <<>> ELSE Split(cmd)[1]
RefArgString(cmd) == IF Split(cmd) = <<>> THEN <<>> ELSE Join(Tail(Split(cmd)))

\* s occurs in t, characters compared exactly
RefOccursIn(s, t) ==
  \E k \in 0..(Len(t) - Len(s)) : \A i \in 1..Len(s) : t[k + i] = s[i]

\* the result the reference matcher gives; "regex" where the decision is
\* left to the regular expression
RefMatch(cmd, pattern) ==
  IF RefProgramSpec(pattern) # <<"*">> /\ RefProgram(cmd) # RefProgramSpec(pattern)
    THEN "nomatch"
  ELSE IF RefArgSpec(pattern) = <<"*">> THEN "match"
  ELSE IF Len(RefArgSpec(pattern)) >= 6 /\ SubSeq(RefArgSpec(pattern), 1, 6) = RegexPrefix
    THEN "regex"
  ELSE IF RefOccursIn(RefArgSpec(pattern), RefArgString(cmd)) THEN "match"
  ELSE "nomatch"

\* the patterns of the rules of the loaded configuration
LoadedPatterns ==
  {RulePattern(TierEntries(tier)[i]) :
     <<tier, i>> \in {<<t, k>> \in {"deny", "ask", "allow"} \X (1..MaxRules) :
                        /\ k \in DOMAIN TierEntries(t)
                        /\ TierEntries(t)[k].kind = "map"}}

\* C18: match_pattern agrees with the reference matcher on the command and
\* every pattern of the configuration: a pattern without ':' has argSpec
\* '*'; a programSpec other than '*' that differs from the first token is
\* no match; otherwise argSpec '*' matches; otherwise an argSpec that is not
\* a regex matches exactly when it occurs, case-sensitively, in the
\* space-joined remaining tokens.
C18_MatchPatternAgreesWithReference ==
  Loaded =>
    \A pattern \in LoadedPatterns :
      RefMatch(command, pattern) # "regex"
        => match_pattern(command, pattern) = RefMatch(command, pattern)

\* a rule with a literal argSpec was handed to match_pattern with a command
\* whose arguments contain it only in another case, and did not match
C18_Witness ==
  /\ Loaded /\ Done /\ command = CmdNpmUpper
  /\ consulted = <<<<"deny", 1>>, <<"ask", 1>>>>
  /\ TierEntries("deny") = <<RuleNpm>> /\ TierEntries("ask") = <<RuleRm>>
  /\ LastTag = "ALLOWED_DEFAULT"

\* the step of main that scans the allow list: what follows it does not
\* depend on the list
AllowStepSameOutcome ==
  /\ IF exec_mode
       THEN pc' = "run" /\ exitStatus' = exitStatus
       ELSE pc' = "done" /\ exitStatus' = 0
  /\ executed' = executed
  /\ log' = Append(log, log'[Len(log')])
  /\ LastTag' \in {"ALLOWED", "ALLOWED_DEFAULT"}
  /\ log'[Len(log')].command = command

\* C19: for a command that was not blocked by deny and not denied at the
\* ask step, the allow tier only selects the audit tag: whatever the allow
\* list holds, the step that scans it appends ALLOWED or ALLOWED_DEFAULT
\* and goes on to the Executor in execute mode and to exit
\* status 0 in check-only mode.
C19_AllowTierOnlySelectsTag ==
  [][(variant = "enhanced" /\ pc = "allow") => AllowStepSameOutcome]_vars

AllowingTags == {"EXECUTED", "ALLOWED", "ALLOWED_DEFAULT"}

\* the audit log, as it is when the Executor is invoked, holds a line with
\* the command and an allowing tag, and the approval of an ask command
\* comes before that line
LoggedBeforeRun ==
  /\ \E i \in DOMAIN log :
       log[i].status \in AllowingTags /\ log[i].command = command
  /\ (variant = "enhanced" /\ answers # <<>>) =>
       \E i, j \in DOMAIN log :
         /\ i < j
         /\ log[i].status = "APPROVED_BY_USER" /\ log[i].command = command
         /\ log[j].status \in AllowingTags

\* C20: whenever the Executor is invoked, the audit log already holds a line
\* with the command text and an allowing tag (EXECUTED, ALLOWED or
\* ALLOWED_DEFAULT), and for an ask command the user approved the
\* APPROVED_BY_USER line comes before it; the Executor is given the command
\* that was logged.
C20_LoggedBeforeExecuted ==
  [][executed' # executed =>
       (LoggedBeforeRun /\ executed' = Append(executed, command))]_vars

\* an approved ask command has been executed
C20_Witness ==
  /\ variant = "enhanced" /\ Done /\ executed = <<CmdGitPush>>
  /\ AnsweredYes
  /\ Tags = {"APPROVED_BY_USER", "ALLOWED"}

====
